---- MODULE Spec2Model ----
(***************************************************************************)
(* The vehicle rigs of HeavyMachinery. The excavator: key flags, the        *)
(* active-vehicle gate, locomotion, the joint motor commands (PD hold of   *)
(* part_004, proportional stick limiter of src/Excavator.js), the angle    *)
(* limiter, the bucket's pick up / carry / release of cubes and the visual *)
(* sync. The dump truck and the snow plow: key flags, locomotion, tipper,  *)
(* blade and lift. All driven by the animation loop of src/index.js.       *)
(*                                                                         *)
(* Units: lengths in 0.1 world units on a (y, z) grid whose rotations are  *)
(* quarter turns about X; angles in 1e-4 rad; motor speeds in 1e-5 rad/s,  *)
(* so a speed is 10 times an angle per second; an arm body's angular       *)
(* velocity about its hinge in 1e-4 rad per world step. forwardVelocity in *)
(* 0.05 units, track forces in 0.5 N, a chassis' velocity and angular      *)
(* velocity in 1e-4 per second, the lift height in 0.01 units. A product   *)
(* of floats is cut off toward zero at the unit. The heading and the       *)
(* horizontal velocity of a chassis are not followed.                      *)
(***************************************************************************)
EXTENDS Integers, Sequences, FiniteSets, TLC

----------------------------------------------------------------------------
(* Bounds of the model *)

\* cubes handed to setCubes
NumCubes == 23

\* distance an airborne cube falls in one world step
FallStep == 4

----------------------------------------------------------------------------
(* Program constants *)

\* dig(): this.attachedCubes.length < 20
MaxAttached == 20

\* dig(): distance < 0.4
PickupRadius == 4

\* update(): const armSpeed = 1.5
armSpeed == 150000

\* update(): const kp = 10
kp == 10

\* update(): const kd = 2
kd == 2

\* update(): const maxControlSpeed = 2
maxControlSpeed == 200000

\* (currentAngle - previousAngle) / (1 / 60)
TicksPerSecond == 60

\* this.maxVelocity = 8
maxVelocity == 160

\* this.acceleration = 0.8
acceleration == 16

\* null, and a number held in a nullable field
null == << >>

Some(x) == <<x>>

Variants == {"Excavator.js", "part_004"}

Vehicles == {"excavator", "dumpTruck", "snowPlow"}

KeyNames == {"w", "s", "a", "d", "q", "e", "r", "f", "t", "g", "y", "h", "space"}

Joints == {"boom", "stick", "bucket"}

Motors == {"turret"} \cup Joints

\* the child bodies update() hands to clampHingeAngleAroundY / AroundX
Limited == {"turret", "boom", "bucket"}

CubeIds == 1..NumCubes

\* the two SnowPlow sources
PlowVariants == {"part_013", "part_014"}

ArrowKeys == {"ArrowUp", "ArrowDown", "ArrowLeft", "ArrowRight"}

\* dumpTruck.keys and dumpTruck.tipperKeys
TruckKeyNames == ArrowKeys \cup {"b", "n"}

\* snowPlow.keys and snowPlow.plowKeys: z, x, liftUp (v), liftDown (c)
PlowKeyNames == ArrowKeys \cup {"z", "x", "v", "c"}

----------------------------------------------------------------------------
(* CANNON.Vec3 / CANNON.Quaternion on the quarter-turn grid *)

vadd(a, b) == <<a[1] + b[1], a[2] + b[2]>>

vsub(a, b) == <<a[1] - b[1], a[2] - b[2]>>

\* rotate v by q quarter turns
vmult(q, v) ==
  CASE q = 0 -> v
    [] q = 1 -> <<-v[2], v[1]>>
    [] q = 2 -> <<-v[1], -v[2]>>
    [] q = 3 -> <<v[2], -v[1]>>

conjugate(q) == (4 - q) % 4

distanceSquared(a, b) ==
  (a[1] - b[1]) * (a[1] - b[1]) + (a[2] - b[2]) * (a[2] - b[2])

\* a.distanceTo(b) < r, for r >= 0
distanceLess(a, b, r) == distanceSquared(a, b) < r * r

Min(a, b) == IF a < b THEN a ELSE b

Max(a, b) == IF a > b THEN a ELSE b

Range(s) == {s[i] : i \in 1..Len(s)}

Abs(x) == IF x < 0 THEN -x ELSE x

----------------------------------------------------------------------------
VARIABLES
  variant,         \* which Excavator source file is loaded
  activeVehicle,   \* window.activeVehicle
  keys,            \* excavator.keys
  cubes,           \* excavator.cubes: the free list
  attachedCubes,   \* excavator.attachedCubes
  localPosition,   \* cube.localPosition, null until first picked up
  body,            \* cube.body of every cube the excavator can still reach
  bucketBody,      \* excavator.bucketBody pose
  jointAngle,      \* rotation of each arm body about its hinge, relative to its parent
  motorSpeed,      \* speed last given to each constraint's setMotorSpeed
  targetAngle,     \* targetBoomAngle, targetStickAngle, targetBucketAngle
  previousAngle,   \* previousBoomAngle, previousStickAngle, previousBucketAngle
  lastFrame,       \* what the latest animate() frame did
  lastTick,        \* what the latest update() that ran did with each joint
  yaw,             \* rotation of turretBody about Y, relative to baseBody
  bodyAngularVelocity,  \* angularVelocity of turretBody, boomBody, bucketBody
  mesh,            \* quaternion of turretGroup, boomMesh, stickMesh, bucketMesh
  chassis,         \* excavator: forwardVelocity, baseBody, the track forces
  dumpTruck,       \* the DumpTruck object
  snowPlow,        \* the SnowPlow object
  plowVariant,     \* which SnowPlow source file is loaded
  pressed          \* the truck and plow keys held down on the keyboard

vars == <<variant, activeVehicle, keys, cubes, attachedCubes, localPosition, body,
          bucketBody, jointAngle, motorSpeed, targetAngle, previousAngle, lastFrame,
          lastTick, yaw, bodyAngularVelocity, mesh, chassis, dumpTruck, snowPlow,
          plowVariant, pressed>>

----------------------------------------------------------------------------
(* Construction *)

\* the cubes of the scene: on the ground, the first and the last out of the
\* bucket's reach, the others alternately 0.3 and 0 away from where it digs
InitialCubePosition(i) ==
  IF i = 1 \/ i = NumCubes THEN <<0, PickupRadius>>
  ELSE IF i % 2 = 1 THEN <<0, PickupRadius - 1>>
  ELSE <<0, 0>>

\* poses the arm can bring the bucket to: digging on the ground, turned a
\* quarter; and lifted, level
DigPose == [position |-> <<0, 0>>, quaternion |-> 1]

CarryPose == [position |-> <<5, 0>>, quaternion |-> 0]

BucketPoses == {DigPose, CarryPose}

\* createPhysics(): the arm bodies' setFromAxisAngle about X, relative to the parent
RestAngle(v, j) ==
  IF v = "part_004"
  THEN CASE j = "boom" -> -10472 [] j = "stick" -> -10472 [] j = "bucket" -> 24871
  ELSE CASE j = "boom" -> -7854 [] j = "stick" -> 2618 [] j = "bucket" -> 5236

\* angles the world can leave a driven hinge at
AngleSamples == {-5000, -2500, 0}

\* constructor
Constructed(v, cs) ==
  /\ variant = v
  /\ activeVehicle = "excavator"
  /\ keys = [k \in KeyNames |-> FALSE]
  /\ cubes = cs
  /\ attachedCubes = << >>
  /\ localPosition = [c \in Range(cs) |-> null]
  /\ body = [c \in Range(cs) |->
               [position |-> InitialCubePosition(c), quaternion |-> 0,
                velocity |-> <<0, 0>>, angularVelocity |-> 0]]
  /\ bucketBody = CarryPose
  /\ jointAngle = [j \in Joints |-> RestAngle(v, j)]
  /\ motorSpeed = [m \in Motors |-> 0]
  /\ targetAngle = [j \in Joints |-> null]
  /\ previousAngle = [j \in Joints |-> null]
  /\ lastFrame = [updated |-> FALSE, digCalled |-> FALSE, log |-> << >>,
                  zeroed |-> {}]
  /\ lastTick = [j \in Joints |-> "none"]
  /\ yaw = 0
  /\ bodyAngularVelocity = [c \in Limited |-> 0]
  /\ mesh = [m \in Motors |-> [yaw |-> 0, pitch |-> 0]]
  /\ chassis = [forwardVelocity |-> 0, velocity |-> [y |-> 0],
                angularVelocity |-> [x |-> 0, y |-> 0, z |-> 0],
                leftTrackForce |-> 0, rightTrackForce |-> 0]

\* plowBladeGroup.rotation.x after createModel(), and the range update()
\* keeps it in
BladeRange(p) ==
  IF p = "part_013"
  THEN [rest |-> -7854, lowest |-> -15708, highest |-> -5236]
  ELSE [rest |-> 0, lowest |-> -5236, highest |-> 0]

\* new DumpTruck(...), new SnowPlow(...) of source p, no key held
VehiclesConstructed(p) ==
  /\ plowVariant = p
  /\ pressed = {}
  /\ dumpTruck = [keys |-> [k \in TruckKeyNames |-> FALSE],
                  forwardVelocity |-> 0, velocity |-> [y |-> 0],
                  angularVelocity |-> [x |-> 0, y |-> 0, z |-> 0],
                  turning |-> [held |-> 0, idle |-> 0],
                  tipperRotation |-> 0]
  /\ snowPlow = [keys |-> [k \in PlowKeyNames |-> FALSE],
                 forwardVelocity |-> 0, velocity |-> [y |-> 0],
                 angularVelocity |-> [x |-> 0, y |-> 0, z |-> 0],
                 turning |-> [held |-> 0, idle |-> 0],
                 bladeRotation |-> BladeRange(p).rest,
                 assemblyHeight |-> 75]

----------------------------------------------------------------------------
(* Key events *)

onKeyDown(k) ==
  /\ keys' = [keys EXCEPT ![k] = TRUE]
  /\ UNCHANGED <<variant, activeVehicle, cubes, attachedCubes, localPosition, body,
                 bucketBody, jointAngle, motorSpeed, targetAngle, previousAngle,
                 lastFrame, lastTick, yaw, bodyAngularVelocity,
                 mesh, chassis, dumpTruck, snowPlow, plowVariant, pressed>>

onKeyUp(k) ==
  /\ keys' = [keys EXCEPT ![k] = FALSE]
  /\ UNCHANGED <<variant, activeVehicle, cubes, attachedCubes, localPosition, body,
                 bucketBody, jointAngle, motorSpeed, targetAngle, previousAngle,
                 lastFrame, lastTick, yaw, bodyAngularVelocity,
                 mesh, chassis, dumpTruck, snowPlow, plowVariant, pressed>>

\* index.js keydown listener, keys 1, 2, 3
switchVehicle(v) ==
  /\ activeVehicle' = v
  /\ UNCHANGED <<variant, keys, cubes, attachedCubes, localPosition, body,
                 bucketBody, jointAngle, motorSpeed, targetAngle, previousAngle,
                 lastFrame, lastTick, yaw, bodyAngularVelocity,
                 mesh, chassis, dumpTruck, snowPlow, plowVariant, pressed>>

\* the keydown listeners of DumpTruck and SnowPlow on one event; the
\* excavator's onKeyDown has no case for these keys
vehicleKeyDown(k) ==
  /\ pressed' = pressed \cup {k}
  /\ dumpTruck' = IF activeVehicle = "dumpTruck" /\ k \in TruckKeyNames
                  THEN [dumpTruck EXCEPT !.keys[k] = TRUE]
                  ELSE dumpTruck
  /\ snowPlow' = IF activeVehicle = "snowPlow" /\ k \in PlowKeyNames
                 THEN [snowPlow EXCEPT !.keys[k] = TRUE]
                 ELSE snowPlow
  /\ UNCHANGED <<variant, activeVehicle, keys, cubes, attachedCubes, localPosition,
                 body, bucketBody, jointAngle, motorSpeed, targetAngle,
                 previousAngle, lastFrame, lastTick, yaw, bodyAngularVelocity,
                 mesh, chassis, plowVariant>>

\* the keyup listeners of DumpTruck and SnowPlow on one event
vehicleKeyUp(k) ==
  /\ pressed' = pressed \ {k}
  /\ dumpTruck' = IF activeVehicle = "dumpTruck" /\ k \in TruckKeyNames
                  THEN [dumpTruck EXCEPT !.keys[k] = FALSE]
                  ELSE dumpTruck
  /\ snowPlow' = IF activeVehicle = "snowPlow" /\ k \in PlowKeyNames
                 THEN [snowPlow EXCEPT !.keys[k] = FALSE]
                 ELSE snowPlow
  /\ UNCHANGED <<variant, activeVehicle, keys, cubes, attachedCubes, localPosition,
                 body, bucketBody, jointAngle, motorSpeed, targetAngle,
                 previousAngle, lastFrame, lastTick, yaw, bodyAngularVelocity,
                 mesh, chassis, plowVariant>>

----------------------------------------------------------------------------
(* The rigid body world: one step of 1/60 s *)

\* a cube body under gravity: at rest on the ground, else falling and tumbling
stepBody(b) ==
  IF b.position[1] > 0
  THEN [position |-> <<Max(b.position[1] - FallStep, 0), b.position[2]>>,
        quaternion |-> (b.quaternion + 1) % 4,
        velocity |-> <<-FallStep, 0>>,
        angularVelocity |-> 1]
  ELSE [b EXCEPT !.velocity = <<0, 0>>, !.angularVelocity = 0]

\* world.step(1 / 60) on the cube bodies; a body that neither list holds any
\* more is out of the excavator's reach and is followed no further
stepCubes(bs, held) == [c \in held |-> stepBody(bs[c])]

\* a hinge whose motor is commanded to rest keeps its angle; a driven one is
\* left at any of the sampled angles
stepJoint(j, angle, speed, moving, samples) ==
  IF j \in moving /\ speed # 0 THEN samples ELSE {angle}

\* the angular velocity about the hinge the step leaves on the child body
stepVelocity(angle, stepped) == stepped - angle

\* orientation of an arm body in the world, the chassis level and heading
\* along Z: turned about Y with the turret, about X by the hinges up the chain
bodyQuaternion(angles, y, m) ==
  CASE m = "turret" -> [yaw |-> y, pitch |-> 0]
    [] m = "boom" -> [yaw |-> y, pitch |-> angles["boom"]]
    [] m = "stick" -> [yaw |-> y, pitch |-> angles["boom"] + angles["stick"]]
    [] m = "bucket" ->
         [yaw |-> y,
          pitch |-> angles["boom"] + angles["stick"] + angles["bucket"]]

\* a float product x * num / den, cut off toward zero
scaled(x, num, den) ==
  IF x < 0 THEN -((-x * num) \div den) ELSE (x * num) \div den

\* world.step(1 / 60) on a chassis on level ground: the vertical velocity and
\* the pitch and roll rates are whatever the contacts kick them to; the yaw
\* rate is kept (the body's angular damping, which can only lower it, is
\* left out)
stepChassis(b, kick) ==
  [b EXCEPT !.velocity = [y |-> kick],
            !.angularVelocity = [x |-> kick, y |-> @.y, z |-> kick]]

----------------------------------------------------------------------------
(* Excavator.getHingeAngle *)

\* quatA.conjugate().mult(quatB) for a child turned by theta about the hinge's
\* X axis: relQuat.w = cos(theta/2), relQuat.vmult(axisB) = axisB of length 1,
\* axisA.cross(rotatedAxisB) = 0 so sign = 1; the result 2*atan2(1, cos(theta/2))
getHingeAngle(theta) ==
  LET t == IF theta < 0 THEN -theta ELSE theta
  IN CASE t = 0 -> 15708
       [] t = 2500 -> 15786
       [] t = 5000 -> 16024
       [] t = 10472 -> 17141
       [] t = 12000 -> 17616
       [] t = 24871 -> 25196

----------------------------------------------------------------------------
(* Excavator.update: joint motor commands *)

\* a drive key of the joint is held
driveHeld(j) ==
  CASE j = "boom" -> keys["r"] \/ keys["f"]
    [] j = "stick" -> keys["g"] \/ keys["t"]
    [] j = "bucket" -> keys["y"] \/ keys["h"]

clampSpeed(x) == Max(-maxControlSpeed, Min(maxControlSpeed, x))

\* pdJoint that leaves previousAngle alone while a drive key is held
pdJointKeepsPrevious(j, first, second, firstSpeed, theta) ==
  IF keys[first] \/ keys[second]
  THEN [target |-> null, previous |-> previousAngle[j],
        speed |-> IF keys[first] THEN firstSpeed ELSE -firstSpeed]
  ELSE LET currentAngle == getHingeAngle(theta)
           target == IF targetAngle[j] = null THEN currentAngle ELSE targetAngle[j][1]
       IN [target |-> Some(target),
           previous |-> Some(currentAngle),
           speed |-> IF previousAngle[j] # null
                     THEN LET angleError == target - currentAngle
                              angularVelocity ==
                                (currentAngle - previousAngle[j][1]) * TicksPerSecond
                          IN clampSpeed(10 * (kp * angleError - kd * angularVelocity))
                     ELSE motorSpeed[j]]

\* pdJoint that takes the target anew on every idle tick
pdJointRecaptures(j, first, second, firstSpeed, theta) ==
  IF keys[first] \/ keys[second]
  THEN [target |-> null, previous |-> null,
        speed |-> IF keys[first] THEN firstSpeed ELSE -firstSpeed]
  ELSE LET currentAngle == getHingeAngle(theta)
           target == currentAngle
       IN [target |-> Some(target),
           previous |-> Some(currentAngle),
           speed |-> IF previousAngle[j] # null
                     THEN LET angleError == target - currentAngle
                              angularVelocity ==
                                (currentAngle - previousAngle[j][1]) * TicksPerSecond
                          IN clampSpeed(10 * (kp * angleError - kd * angularVelocity))
                     ELSE motorSpeed[j]]

\* pdJoint without the clamp to maxControlSpeed
pdJointUnclamped(j, first, second, firstSpeed, theta) ==
  IF keys[first] \/ keys[second]
  THEN [target |-> null, previous |-> null,
        speed |-> IF keys[first] THEN firstSpeed ELSE -firstSpeed]
  ELSE LET currentAngle == getHingeAngle(theta)
           target == IF targetAngle[j] = null THEN currentAngle ELSE targetAngle[j][1]
       IN [target |-> Some(target),
           previous |-> Some(currentAngle),
           speed |-> IF previousAngle[j] # null
                     THEN LET angleError == target - currentAngle
                              angularVelocity ==
                                (currentAngle - previousAngle[j][1]) * TicksPerSecond
                          IN 10 * (kp * angleError - kd * angularVelocity)
                     ELSE motorSpeed[j]]

\* pdJoint that commands the motor on the first idle tick too, with no rate
pdJointCommandsAtOnce(j, first, second, firstSpeed, theta) ==
  IF keys[first] \/ keys[second]
  THEN [target |-> null, previous |-> null,
        speed |-> IF keys[first] THEN firstSpeed ELSE -firstSpeed]
  ELSE LET currentAngle == getHingeAngle(theta)
           target == IF targetAngle[j] = null THEN currentAngle ELSE targetAngle[j][1]
       IN [target |-> Some(target),
           previous |-> Some(currentAngle),
           speed |-> LET angleError == target - currentAngle
                         angularVelocity ==
                           IF previousAngle[j] # null
                           THEN (currentAngle - previousAngle[j][1]) * TicksPerSecond
                           ELSE 0
                     IN clampSpeed(10 * (kp * angleError - kd * angularVelocity))]

\* part_004: one "with PD control" block; first/second are the keys in the
\* order the block tests them, firstSpeed what the first one commands
pdJoint(j, first, second, firstSpeed, theta) ==
  IF keys[first] \/ keys[second]
  THEN [target |-> null, previous |-> null,
        speed |-> IF keys[first] THEN firstSpeed ELSE -firstSpeed]
  ELSE LET currentAngle == getHingeAngle(theta)
           target == IF targetAngle[j] = null THEN currentAngle ELSE targetAngle[j][1]
       IN [target |-> Some(target),
           previous |-> Some(currentAngle),
           speed |-> IF previousAngle[j] # null
                     THEN LET angleError == target - currentAngle
                              angularVelocity ==
                                (currentAngle - previousAngle[j][1]) * TicksPerSecond
                          IN clampSpeed(10 * (kp * angleError - kd * angularVelocity))
                     ELSE motorSpeed[j]]

\* plainJoint with the two keys tested in the other order
plainJointSecondFirst(j, first, second, firstSpeed) ==
  [target |-> targetAngle[j], previous |-> previousAngle[j],
   speed |-> IF keys[second] THEN -firstSpeed
             ELSE IF keys[first] THEN firstSpeed ELSE 0]

\* src/Excavator.js: if / else if / else with setMotorSpeed(0)
plainJoint(j, first, second, firstSpeed) ==
  [target |-> targetAngle[j], previous |-> previousAngle[j],
   speed |-> IF keys[first] THEN firstSpeed
             ELSE IF keys[second] THEN -firstSpeed ELSE 0]

\* src/Excavator.js: 2 * Math.atan2(relQuat.x, relQuat.w) of the stick's
\* limiter. boomInv.conjugate() returns the conjugate and leaves boomInv as
\* the boom's own orientation, so relQuat = boomQuat * stickQuat, the boom
\* turned by b and the stick by b + s about X, both then by psi about Y:
\*   relQuat.x = cos^2(psi/2) sin(b + s/2) - sin^2(psi/2) sin(s/2)
\*   relQuat.w = cos^2(psi/2) cos(b + s/2) - sin^2(psi/2) cos(s/2)
\* which is a turn by 2b + s when psi = 0
relQuatAngle(b, s, psi) ==
  IF psi = 0 THEN 2 * b + s
  ELSE CASE Abs(psi) = 5000 /\ s = 2618 ->
              (CASE b = -7854 -> -14056 [] b = -12000 -> -22625
                 [] b = -5000 -> -8045 [] b = 5000 -> 13281)
         [] Abs(psi) = 12000 /\ s = 2618 ->
              (CASE b = -7854 -> -22278 [] b = -12000 -> -31056
                 [] b = -5000 -> -14659 [] b = 5000 -> 19895)

\* src/Excavator.js: the stick's proportional limiter. kP = 0.1 is one speed
\* unit per angle unit
stickLimiter(angles, y) ==
  IF keys["g"] THEN -armSpeed
  ELSE IF keys["t"] THEN armSpeed
  ELSE LET currentAngle == relQuatAngle(angles["boom"], angles["stick"], y)
           minAngle == -873
           maxAngle == 873
           error == IF currentAngle > maxAngle THEN currentAngle - maxAngle
                    ELSE IF currentAngle < minAngle THEN currentAngle - minAngle
                    ELSE 0
           absError == IF error < 0 THEN -error ELSE error
       IN IF absError < 100 THEN 0 ELSE -error

turretSpeed ==
  IF keys["q"] THEN -armSpeed ELSE IF keys["e"] THEN armSpeed ELSE 0

\* the joint section of update(), on the angles the world step left
jointControl(angles, y) ==
  IF variant = "part_004"
  THEN [j \in Joints |->
          CASE j = "boom" -> pdJoint(j, "r", "f", -armSpeed, angles[j])
            [] j = "stick" -> pdJoint(j, "g", "t", -armSpeed, angles[j])
            [] j = "bucket" -> pdJoint(j, "y", "h", armSpeed, angles[j])]
  ELSE [j \in Joints |->
          CASE j = "boom" -> plainJoint(j, "r", "f", -armSpeed)
            [] j = "stick" ->
                 [target |-> targetAngle[j], previous |-> previousAngle[j],
                  speed |-> stickLimiter(angles, y)]
            [] j = "bucket" -> plainJoint(j, "y", "h", armSpeed)]

----------------------------------------------------------------------------
(* Excavator.clampHingeAngleAroundX / clampHingeAngleAroundY *)

\* signedAngle of clampHingeAngleAroundX for a child turned by rel about the
\* hinge's X axis relative to its parent, both turned by psi about Y with the
\* turret (|rel|, |psi| < pi): childUp . parentUp = cos(rel), and
\* childUp x parentUp lies along the hinge axis, (cos psi, 0, -sin psi), with
\* z component sin(psi) * sin(rel)
signedAngleAroundX(rel, psi) ==
  LET angle == Abs(rel)
      crossZNegative == (rel < 0 /\ psi > 0) \/ (rel > 0 /\ psi < 0)
  IN IF crossZNegative THEN -angle ELSE angle

\* signedAngle of clampHingeAngleAroundY for a child turned by rel about Y
\* relative to its parent: childFwd x parentFwd has y component -sin(rel)
signedAngleAroundY(rel) ==
  LET angle == Abs(rel)
      crossYNegative == rel > 0
  IN IF crossYNegative THEN -angle ELSE angle

\* update(): the limits handed to the limiter, -Math.PI .. Math.PI for the
\* turret, -75 (part_004) or -45 (src/Excavator.js) .. 60 degrees for the
\* boom, -45 .. 90 degrees for the bucket
HingeLimits(v, c) ==
  CASE c = "turret" -> [minAngle |-> -31416, maxAngle |-> 31416]
    [] c = "boom" -> [minAngle |-> IF v = "part_004" THEN -13090 ELSE -7854,
                      maxAngle |-> 10472]
    [] c = "bucket" -> [minAngle |-> -7854, maxAngle |-> 15708]

\* the limiter that zeroes the angular velocity while the angle is in range
clampHingeAngleInverted(velocity, signedAngle, minAngle, maxAngle) ==
  IF signedAngle < minAngle \/ signedAngle > maxAngle THEN velocity ELSE 0

\* the if statement both limiters end with: the child's angular velocity
\* after it
clampHingeAngle(velocity, signedAngle, minAngle, maxAngle) ==
  IF signedAngle < minAngle \/ signedAngle > maxAngle THEN 0 ELSE velocity

\* the signed angle update()'s limiter pass measures for child c
limiterAngle(c, angles, y) ==
  CASE c = "turret" -> signedAngleAroundY(y)
    [] c = "boom" -> signedAngleAroundX(angles["boom"], y)
    [] c = "bucket" -> signedAngleAroundX(angles["bucket"], y)

\* src/Excavator.js: the else branch of the boom and the bucket also calls
\* angularVelocity.set(0, 0, 0) on the body
restsWhenIdle(c) ==
  variant = "Excavator.js" /\ c \in {"boom", "bucket"} /\ ~driveHeld(c)

\* update(): the angular velocities after the joint section and the limiter
\* pass, from those the world step left
limiterPass(velocity, angles, y) ==
  [c \in Limited |->
     clampHingeAngle(IF restsWhenIdle(c) THEN 0 ELSE velocity[c],
                     limiterAngle(c, angles, y),
                     HingeLimits(variant, c).minAngle,
                     HingeLimits(variant, c).maxAngle)]

\* the children whose angular velocity the limiter pass took away
limiterZeroed(velocity, angles, y) ==
  {c \in Limited :
     /\ ~restsWhenIdle(c) /\ velocity[c] # 0
     /\ limiterPass(velocity, angles, y)[c] = 0}

----------------------------------------------------------------------------
(* Excavator.dig *)

RemoveAt(s, i) == SubSeq(s, 1, i - 1) \o SubSeq(s, i + 1, Len(s))

\* pickIndex without the test on attachedCubes.length
RECURSIVE pickIndexNoCap(_, _, _, _, _)
pickIndexNoCap(i, cs, at, bs, bucketPos) ==
  IF i < 1 THEN 0
  ELSE IF distanceLess(bucketPos, bs[cs[i]].position, PickupRadius)
       THEN i
       ELSE pickIndexNoCap(i - 1, cs, at, bs, bucketPos)

\* pickIndex with attachedCubes.length <= 20 for < 20
RECURSIVE pickIndexCapInclusive(_, _, _, _, _)
pickIndexCapInclusive(i, cs, at, bs, bucketPos) ==
  IF i < 1 THEN 0
  ELSE IF distanceLess(bucketPos, bs[cs[i]].position, PickupRadius)
          /\ Len(at) <= MaxAttached
       THEN i
       ELSE pickIndexCapInclusive(i - 1, cs, at, bs, bucketPos)

\* pickIndex without the test on the distance
RECURSIVE pickIndexAnyDistance(_, _, _, _, _)
pickIndexAnyDistance(i, cs, at, bs, bucketPos) ==
  IF i < 1 THEN 0
  ELSE IF Len(at) < MaxAttached
       THEN i
       ELSE pickIndexAnyDistance(i - 1, cs, at, bs, bucketPos)

\* pickIndex taking the nearest of the cubes within reach, the higher index
\* on a tie
RECURSIVE pickIndexNearest(_, _, _, _, _)
pickIndexNearest(i, cs, at, bs, bucketPos) ==
  IF i < 1 THEN 0
  ELSE LET below == pickIndexNearest(i - 1, cs, at, bs, bucketPos)
           within == distanceLess(bucketPos, bs[cs[i]].position, PickupRadius)
                       /\ Len(at) < MaxAttached
       IN IF ~within THEN below
          ELSE IF below = 0 THEN i
          ELSE IF distanceSquared(bucketPos, bs[cs[below]].position)
                    < distanceSquared(bucketPos, bs[cs[i]].position)
               THEN below
               ELSE i

\* the for loop of dig(): from index i down, the first cube closer than 0.4 to
\* the bucket while fewer than 20 are attached; 0 when the loop ends without one
RECURSIVE pickIndex(_, _, _, _, _)
pickIndex(i, cs, at, bs, bucketPos) ==
  IF i < 1 THEN 0
  ELSE IF distanceLess(bucketPos, bs[cs[i]].position, PickupRadius)
          /\ Len(at) < MaxAttached
       THEN i
       ELSE pickIndex(i - 1, cs, at, bs, bucketPos)

\* the local offset stored at pickup
localOffset(cubePos, bucket) ==
  vmult(conjugate(bucket.quaternion), vsub(cubePos, bucket.position))

\* dig() on free list cs, attached list at, offsets lp and bodies bs
dig(cs, at, lp, bs, bucket) ==
  LET i == pickIndex(Len(cs), cs, at, bs, bucket.position)
      picked == i > 0
      cs1 == IF picked THEN RemoveAt(cs, i) ELSE cs
      at1 == IF picked THEN Append(at, cs[i]) ELSE at
      lp1 == IF picked
             THEN [lp EXCEPT ![cs[i]] = localOffset(bs[cs[i]].position, bucket)]
             ELSE lp
      log1 == IF picked
              THEN <<[op |-> "Picking up cube", at |-> bs[cs[i]].position]>>
              ELSE << >>
      release == keys["r"] /\ Len(at1) > 0
  IN [cubes |-> cs1,
      attachedCubes |-> IF release THEN << >> ELSE at1,
      localPosition |-> lp1,
      body |-> IF release
               THEN [c \in DOMAIN bs |->
                       IF c \in Range(at1)
                       THEN [bs[c] EXCEPT !.velocity = <<0, 0>>,
                                          !.angularVelocity = 0]
                       ELSE bs[c]]
               ELSE bs,
      log |-> IF release
              THEN Append(log1, [op |-> "Releasing cubes", at |-> Len(at1)])
              ELSE log1]

\* the attachedCubes.forEach of update(): carry every attached cube with the bucket
carry(at, lp, bs, bucket) ==
  [c \in DOMAIN bs |->
     IF c \in Range(at)
     THEN [bs[c] EXCEPT
             !.position = vadd(bucket.position, vmult(bucket.quaternion, lp[c])),
             !.quaternion = bucket.quaternion]
     ELSE bs[c]]

----------------------------------------------------------------------------
(* Locomotion, tipper, blade and lift *)

\* Math.max(Math.min(angularVelocity.x, 0.3), -0.3)
clampTilt(x) == Max(Min(x, 3000), -3000)

\* accelerate without Math.min / Math.max
accelerateUnbounded(fv, forward, back, idle) ==
  IF forward THEN fv + acceleration
  ELSE IF back THEN fv - acceleration
  ELSE idle

\* the if / else if / else on the forward and the back key; idle is what the
\* else branch leaves
accelerate(fv, forward, back, idle) ==
  IF forward THEN Min(fv + acceleration, maxVelocity)
  ELSE IF back THEN Max(fv - acceleration, -maxVelocity)
  ELSE idle

\* Excavator.update(): forwardVelocity *= damping
damped(fv) == scaled(fv, 95, 100)

\* DumpTruck / SnowPlow update(): forwardVelocity *= damping, then 0 below 0.1
dampedToRest(fv) == IF Abs(damped(fv)) < 2 THEN 0 ELSE damped(fv)

\* Excavator.update() up to the joint section, on the chassis the world step
\* left and the key flags ks: forceMagnitude = 350000, turnSpeed = 2
locomotion(c, ks) ==
  LET forceMagnitude == 700000
      turnSpeed == 20000
      idle == ~ks["w"] /\ ~ks["s"] /\ ~ks["a"] /\ ~ks["d"]
      forwardVelocity == accelerate(IF idle THEN 0 ELSE c.forwardVelocity,
                                    ks["w"], ks["s"],
                                    damped(IF idle THEN 0 ELSE c.forwardVelocity))
      trackForce == forwardVelocity * (forceMagnitude \div maxVelocity)
      bias == (forceMagnitude * 4) \div 10
      leftA == IF ks["a"] THEN trackForce - bias ELSE trackForce
      rightA == IF ks["a"] THEN trackForce + bias ELSE trackForce
      yawIdle == IF idle THEN 0 ELSE c.angularVelocity.y
      yawA == IF ks["a"] THEN turnSpeed ELSE yawIdle
  IN [forwardVelocity |-> forwardVelocity,
      velocity |-> [y |-> 0],
      angularVelocity |-> [x |-> clampTilt(c.angularVelocity.x),
                           y |-> IF ks["d"] THEN -turnSpeed ELSE yawA,
                           z |-> c.angularVelocity.z],
      leftTrackForce |-> IF ks["d"] THEN leftA + bias ELSE leftA,
      rightTrackForce |-> IF ks["d"] THEN rightA - bias ELSE rightA]

excavatorDrive(c) == locomotion(c, keys)

\* decayYaw without the stop below 0.05
decayYawNoStop(w) == scaled(w, 8, 10)

\* angularVelocity.y *= angularVelocityDecay (0.8), then 0 below 0.05
decayYaw(w) == IF Abs(scaled(w, 8, 10)) < 500 THEN 0 ELSE scaled(w, 8, 10)

\* "Handle turning": turnSpeed = 1.5
steer(w, left, right) == IF left THEN 15000 ELSE IF right THEN -15000 ELSE w

\* ticks for which a turn key has been held, up to 60, and, after a run of
\* 60, the idle ticks since, up to 30
turnRun(run, rotating) ==
  IF rotating
  THEN [held |-> IF run.idle > 0 THEN 1 ELSE Min(run.held + 1, 60), idle |-> 0]
  ELSE IF run.held = 60
       THEN [held |-> 60, idle |-> Min(run.idle + 1, 30)]
       ELSE [held |-> 0, idle |-> 0]

\* the locomotion part of DumpTruck.update() and SnowPlow.update(), the same
\* in both, on the object t as the world step left it
vehicleDrive(t) ==
  LET isRotating == t.keys["ArrowLeft"] \/ t.keys["ArrowRight"]
      decayed == IF isRotating THEN t.angularVelocity.y
                 ELSE decayYaw(t.angularVelocity.y)
  IN [t EXCEPT
        !.forwardVelocity = accelerate(@, t.keys["ArrowUp"], t.keys["ArrowDown"],
                                       dampedToRest(@)),
        !.velocity = [y |-> 0],
        !.angularVelocity = [x |-> clampTilt(@.x),
                             y |-> steer(decayed, t.keys["ArrowLeft"],
                                         t.keys["ArrowRight"]),
                             z |-> @.z],
        !.turning = turnRun(@, isRotating)]

\* raiseThenLower without Math.min / Math.max
raiseThenLowerNoStop(v, up, down, step, lowest, highest) ==
  LET raised == IF up THEN v + step ELSE v
  IN IF down THEN raised - step ELSE raised

\* if (up) v = Math.min(v + step, highest); if (down) v = Math.max(v - step, lowest)
raiseThenLower(v, up, down, step, lowest, highest) ==
  LET raised == IF up THEN Min(v + step, highest) ELSE v
  IN IF down THEN Max(raised - step, lowest) ELSE raised

\* if (down) v = Math.max(v - step, lowest); if (up) v = Math.min(v + step, highest)
lowerThenRaise(v, down, up, step, lowest, highest) ==
  LET lowered == IF down THEN Max(v - step, lowest) ELSE v
  IN IF up THEN Min(lowered + step, highest) ELSE lowered

\* DumpTruck.update(): tipSpeed = 0.02, Math.PI / 6
truckUpdate(t) ==
  IF activeVehicle # "dumpTruck" THEN t
  ELSE [vehicleDrive(t) EXCEPT
          !.tipperRotation = raiseThenLower(@, t.keys["b"], t.keys["n"],
                                            200, 0, 5236)]

\* SnowPlow.update(): plowSpeed = 0.02, liftSpeed = 0.01, 0.1 .. 1.5
plowUpdate(t) ==
  IF activeVehicle # "snowPlow" THEN t
  ELSE [vehicleDrive(t) EXCEPT
          !.bladeRotation = lowerThenRaise(@, t.keys["z"], t.keys["x"], 200,
                                           BladeRange(plowVariant).lowest,
                                           BladeRange(plowVariant).highest),
          !.assemblyHeight = raiseThenLower(@, t.keys["v"], t.keys["c"],
                                            1, 10, 150)]

----------------------------------------------------------------------------
(* animate(): updatePhysics(physicsWorld), then excavator.update(),         *)
(* dumpTruck.update(), snowPlow.update()                                   *)

\* part_004: if (window.activeVehicle !== this) return;
gated == variant = "part_004" /\ activeVehicle # "excavator"

update(bs, bucket, angles, y, velocity, base) ==
  IF gated
  THEN /\ body' = bs
       /\ chassis' = base
       /\ bodyAngularVelocity' = velocity
       /\ lastFrame' = [updated |-> FALSE, digCalled |-> FALSE, log |-> << >>,
                         zeroed |-> {}]
       /\ UNCHANGED <<cubes, attachedCubes, localPosition, motorSpeed,
                      targetAngle, previousAngle, lastTick, mesh>>
  ELSE LET joint == jointControl(angles, y)
           dug == IF keys["space"]
                  THEN dig(cubes, attachedCubes, localPosition, bs, bucket)
                  ELSE [cubes |-> cubes, attachedCubes |-> attachedCubes,
                        localPosition |-> localPosition, body |-> bs,
                        log |-> << >>]
       IN /\ motorSpeed' = [m \in Motors |->
                              IF m = "turret" THEN turretSpeed ELSE joint[m].speed]
          /\ targetAngle' = [j \in Joints |-> joint[j].target]
          /\ previousAngle' = [j \in Joints |-> joint[j].previous]
          /\ lastTick' = [j \in Joints |-> IF driveHeld(j) THEN "drive" ELSE "idle"]
          /\ cubes' = dug.cubes
          /\ attachedCubes' = dug.attachedCubes
          /\ localPosition' = dug.localPosition
          /\ body' = carry(dug.attachedCubes, dug.localPosition, dug.body, bucket)
          /\ bodyAngularVelocity' = limiterPass(velocity, angles, y)
          /\ mesh' = [m \in Motors |-> bodyQuaternion(angles, y, m)]
          /\ chassis' = excavatorDrive(base)
          /\ lastFrame' = [updated |-> TRUE, digCalled |-> keys["space"],
                           log |-> dug.log,
                           zeroed |-> limiterZeroed(velocity, angles, y)]

\* the world moves the bucket to one of poses and every driven hinge of moving
\* to one of samples, and kicks every chassis by one of kicks
animate(poses, moving, samples, kicks) ==
  \E bucket \in poses, kick \in kicks :
    \E angles \in [Joints -> samples \cup {jointAngle[j] : j \in Joints}] :
      \E y \in stepJoint("turret", yaw, motorSpeed["turret"], moving, samples) :
        /\ \A j \in Joints :
             angles[j] \in stepJoint(j, jointAngle[j], motorSpeed[j], moving, samples)
        /\ bucketBody' = bucket
        /\ jointAngle' = angles
        /\ yaw' = y
        /\ update(stepCubes(body, Range(cubes) \cup Range(attachedCubes)),
                  bucket, angles, y,
                  [c \in Limited |->
                     IF c = "turret" THEN stepVelocity(yaw, y)
                     ELSE stepVelocity(jointAngle[c], angles[c])],
                  stepChassis(chassis, kick))
        /\ dumpTruck' = truckUpdate(stepChassis(dumpTruck, kick))
        /\ snowPlow' = plowUpdate(stepChassis(snowPlow, kick))
        /\ UNCHANGED <<variant, activeVehicle, keys, plowVariant, pressed>>

----------------------------------------------------------------------------
(* The bucket at work: space and r, the vehicle switch, the bucket moving *)

DigKeys == {"space", "r"}

DigVehicles == {"excavator", "dumpTruck"}

Init ==
  /\ \E v \in Variants : Constructed(v, [i \in CubeIds |-> i])
  /\ VehiclesConstructed("part_013")

KeyDown == \E k \in DigKeys : ~keys[k] /\ onKeyDown(k)

KeyUp == \E k \in DigKeys : keys[k] /\ onKeyUp(k)

Switch == \E v \in DigVehicles : v # activeVehicle /\ switchVehicle(v)

Frame == animate(BucketPoses, {}, AngleSamples, {0})

Next == KeyDown \/ KeyUp \/ Switch \/ Frame

Spec == Init /\ [][Next]_vars

----------------------------------------------------------------------------
(* Pick up, carry and release: properties of Spec *)

\* the indices of the free cubes that dig() finds closer than 0.4 to the bucket
Eligible(cs, bs, bucket) ==
  {i \in 1..Len(cs) : distanceLess(bucket.position, bs[cs[i]].position, PickupRadius)}

\* the cube bodies as dig() of this frame finds them, after the world step
steppedBodies == stepCubes(body, Range(cubes) \cup Range(attachedCubes))

\* a step that is no key event and no vehicle switch: an animate() frame, one
\* whose update() runs past the active-vehicle gate
RunningFrame == keys' = keys /\ activeVehicle' = activeVehicle /\ ~gated

\* C1: attachedCubes.length is never greater than 20, whatever the keys, the
\* frames and the number of free cubes within reach of the bucket.
AttachedWithinCap == Len(attachedCubes) <= MaxAttached

\* C1 witness: dig() ran with 20 cubes attached and a free cube within reach.
AttachedAtCap ==
  /\ lastFrame.digCalled
  /\ Len(attachedCubes) = MaxAttached
  /\ Eligible(cubes, body, bucketBody) # {}

\* C2 (as claimed): every cube is in the free list or in the attached list, so
\* cubes.length + attachedCubes.length stays what setCubes handed over.
ReleasedCubesReturn ==
  /\ \A c \in CubeIds : c \in Range(cubes) \/ c \in Range(attachedCubes)
  /\ Len(cubes) + Len(attachedCubes) = NumCubes

ReleaseOnRaiseBoom ==
  [][RunningFrame /\ keys["r"] /\ attachedCubes # << >> =>
       /\ attachedCubes' = << >>
       /\ \A c \in Range(attachedCubes) :
            body'[c].velocity = <<0, 0>> /\ body'[c].angularVelocity = 0]_vars

\* C5 (as claimed): after every frame each attached cube sits at
\* bucket position + bucket orientation * localPosition, turned as the bucket is.
CarryInvariant ==
  \A c \in Range(attachedCubes) :
    /\ body[c].position =
         vadd(bucketBody.position, vmult(bucketBody.quaternion, localPosition[c]))
    /\ body[c].quaternion = bucketBody.quaternion

\* C6 (as claimed): every attached cube has zero velocity and angular velocity.
AttachedCubesAtRest ==
  \A c \in Range(attachedCubes) :
    body[c].velocity = <<0, 0>> /\ body[c].angularVelocity = 0

\* C7: with 20 cubes attached and r not held, a dig() call leaves the free
\* list, the attached list and every localPosition as they were and logs
\* nothing, also with free cubes within reach.
DeclinesAtCap ==
  [][RunningFrame /\ keys["space"] /\ ~keys["r"]
       /\ Len(attachedCubes) = MaxAttached =>
       /\ cubes' = cubes
       /\ attachedCubes' = attachedCubes
       /\ localPosition' = localPosition
       /\ lastFrame'.log = << >>]_vars

\* C7 witness: the latest frame called dig() at the cap, r up, a free cube
\* within reach, and nothing was picked up or released.
DeclinedAtCap ==
  /\ lastFrame.digCalled
  /\ keys["space"] /\ ~keys["r"]
  /\ Len(attachedCubes) = MaxAttached
  /\ lastFrame.log = << >>
  /\ Eligible(cubes, body, bucketBody) # {}

----------------------------------------------------------------------------
(* The arm at work: the drive keys of boom, stick and bucket on the PD      *)
(* excavator of part_004, no cubes handed over (index.js never calls       *)
(* setCubes), the world moving every driven hinge                          *)

ArmKeys == {"r", "f", "g", "t", "y", "h"}

InitArm == Constructed("part_004", << >>) /\ VehiclesConstructed("part_013")

\* the joint a drive key works
JointOfKey(k) ==
  CASE k \in {"r", "f"} -> "boom"
    [] k \in {"g", "t"} -> "stick"
    [] k \in {"y", "h"} -> "bucket"

\* the operator works one joint at a time: a drive key goes down only while
\* the other joints are let go and their motors at rest
ArmKeyDown ==
  \E k \in ArmKeys :
    /\ ~keys[k]
    /\ \A o \in ArmKeys :
         JointOfKey(o) # JointOfKey(k) => ~keys[o] /\ motorSpeed[JointOfKey(o)] = 0
    /\ onKeyDown(k)

ArmKeyUp == \E k \in ArmKeys : keys[k] /\ onKeyUp(k)

ArmFrame == animate({CarryPose}, Joints, AngleSamples, {0})

NextArm == ArmKeyDown \/ ArmKeyUp \/ Switch \/ ArmFrame

SpecArm == InitArm /\ [][NextArm]_vars

----------------------------------------------------------------------------
(* PD hold of boom, stick and bucket: properties of SpecArm. A tick of a    *)
(* joint is an update() that runs; it is idle when no drive key of the     *)
(* joint is held in it.                                                    *)

\* C8: after an update() of the active excavator in which a drive key of a
\* joint is held, the joint's targetAngle and previousAngle are both null.
ResetOnManualControl ==
  [][RunningFrame =>
       \A j \in Joints :
         driveHeld(j) => targetAngle'[j] = null /\ previousAngle'[j] = null]_vars

\* C8 witness: the latest update() drove a joint whose key is still held, and
\* left its PD state null and its motor at the manual speed.
ManualResetDone ==
  \E j \in Joints :
    /\ lastFrame.updated /\ lastTick[j] = "drive" /\ driveHeld(j)
    /\ targetAngle[j] = null /\ previousAngle[j] = null
    /\ motorSpeed[j] \in {armSpeed, -armSpeed}

\* C9: on the first idle tick of a run (the tick before drove the joint, or
\* there was none) targetAngle becomes the angle measured on that tick; on
\* every later idle tick of the run it keeps its value; nothing but a tick
\* changes it, so a target from before a manual drive is never used again.
TargetCapture ==
  [][IF RunningFrame
     THEN \A j \in Joints :
            ~driveHeld(j) =>
              IF lastTick[j] = "idle"
              THEN targetAngle[j] # null /\ targetAngle'[j] = targetAngle[j]
              ELSE targetAngle'[j] = Some(getHingeAngle(jointAngle'[j]))
     ELSE targetAngle' = targetAngle]_vars

\* C9 witness: after an idle tick that was not the first of its run the joint
\* has moved off the captured angle and the target is still the captured one.
TargetHeld ==
  \E j \in Joints :
    /\ lastFrame.updated /\ lastTick[j] = "idle"
    /\ targetAngle[j] # null
    /\ targetAngle[j] # Some(getHingeAngle(jointAngle[j]))
    /\ previousAngle[j] = Some(getHingeAngle(jointAngle[j]))

\* C10: every idle tick leaves previousAngle at the angle it measured, and
\* nothing else changes previousAngle; from the second idle tick of a run on,
\* the motor speed is set to kp*(target - current) - kd*(current - previous)*60
\* with kp = 10, kd = 2, clamped to [-2, 2] rad/s.
PDLawAndClamp ==
  [][IF RunningFrame
     THEN \A j \in Joints :
            ~driveHeld(j) =>
              LET current == getHingeAngle(jointAngle'[j])
              IN /\ previousAngle'[j] = Some(current)
                 /\ lastTick[j] = "idle" =>
                      /\ targetAngle[j] # null /\ previousAngle[j] # null
                      /\ LET law == 10 * (10 * (targetAngle[j][1] - current)
                                           - 2 * (current - previousAngle[j][1]) * 60)
                         IN motorSpeed'[j] =
                              IF law > 200000 THEN 200000
                              ELSE IF law < -200000 THEN -200000 ELSE law
                      /\ motorSpeed'[j] >= -200000 /\ motorSpeed'[j] <= 200000
     ELSE previousAngle' = previousAngle]_vars

\* C10 witness: an idle tick past the first of its run commanded the largest
\* speed the clamp lets through.
PDCommandClamped ==
  \E j \in Joints :
    /\ lastFrame.updated /\ lastTick[j] = "idle" /\ ~driveHeld(j)
    /\ motorSpeed[j] \in {maxControlSpeed, -maxControlSpeed}

\* C11: the first idle tick of a run leaves the joint's motor speed as it was,
\* which after a manual drive is +armSpeed or -armSpeed; every later idle tick
\* of the run commands the clamped PD value.
FirstIdleTickSkipsMotor ==
  [][RunningFrame =>
       \A j \in Joints :
         ~driveHeld(j) =>
           IF lastTick[j] = "idle"
           THEN /\ targetAngle[j] # null /\ previousAngle[j] # null
                /\ LET current == getHingeAngle(jointAngle'[j])
                   IN motorSpeed'[j] =
                        clampSpeed(10 * (kp * (targetAngle[j][1] - current)
                                         - kd * (current - previousAngle[j][1])
                                              * TicksPerSecond))
           ELSE /\ motorSpeed'[j] = motorSpeed[j]
                /\ lastTick[j] = "drive" =>
                     motorSpeed'[j] \in {armSpeed, -armSpeed}]_vars

\* C11 witness: a first idle tick after a manual drive has just run: the
\* target is the angle it measured and the motor is still at the drive speed.
FirstIdleTickSkipped ==
  \E j \in Joints :
    /\ lastFrame.updated /\ lastTick[j] = "idle" /\ ~driveHeld(j)
    /\ targetAngle[j] # null /\ targetAngle[j] = previousAngle[j]
    /\ motorSpeed[j] \in {armSpeed, -armSpeed}

\* C12 (as claimed): the angle an idle tick measures with getHingeAngle is the
\* rotation of the child relative to its parent about the hinge; it is 0 for
\* coinciding orientations and changes sign with the direction of rotation.
HingeAngleIsRelativeRotation ==
  \A j \in Joints :
    lastFrame.updated /\ lastTick[j] = "idle" =>
      /\ previousAngle[j] = Some(jointAngle[j])
      /\ jointAngle[j] = 0 => previousAngle[j] = Some(0)
      /\ getHingeAngle(-jointAngle[j]) = -previousAngle[j][1]

----------------------------------------------------------------------------
(* The whole rig at work: the drive keys of turret, boom, stick and bucket  *)
(* on either excavator, the vehicle switch, the world moving turret, boom  *)
(* and bucket when driven, also past their limits                          *)

RigKeys == {"q", "e", "r", "f", "g", "t", "y", "h"}

\* angles the world can leave a driven hinge of the rig at
RigSamples == {-12000, -5000, 5000}

InitRig ==
  /\ \E v \in Variants : Constructed(v, << >>)
  /\ VehiclesConstructed("part_013")

\* the motor a drive key works
MotorOfKey(k) == IF k \in {"q", "e"} THEN "turret" ELSE JointOfKey(k)

\* one hinge at a time, as in ArmKeyDown, and the hinges the world moves at
\* rest
RigKeyDown ==
  \E k \in RigKeys :
    /\ ~keys[k]
    /\ \A o \in RigKeys :
         MotorOfKey(o) # MotorOfKey(k) =>
           /\ ~keys[o]
           /\ MotorOfKey(o) \in Limited => motorSpeed[MotorOfKey(o)] = 0
    /\ onKeyDown(k)

RigKeyUp == \E k \in RigKeys : keys[k] /\ onKeyUp(k)

RigFrame == animate({CarryPose}, Limited, RigSamples, {0})

NextRig == RigKeyDown \/ RigKeyUp \/ Switch \/ RigFrame

SpecRig == InitRig /\ [][NextRig]_vars

----------------------------------------------------------------------------
(* The angle limiter: properties of SpecRig *)

\* the angular velocity of child c when this frame's limiter pass reaches it
velocityAtLimiter(c) ==
  IF restsWhenIdle(c) THEN 0
  ELSE IF c = "turret" THEN stepVelocity(yaw, yaw')
  ELSE stepVelocity(jointAngle[c], jointAngle'[c])

LimiterSign ==
  lastFrame.updated =>
    /\ limiterAngle("boom", jointAngle, yaw) = jointAngle["boom"]
    /\ limiterAngle("bucket", jointAngle, yaw) = jointAngle["bucket"]
    /\ limiterAngle("turret", jointAngle, yaw) = yaw

\* C15 (as claimed): after every tick the boom is turned between -75 and 60
\* degrees relative to the turret and the bucket between -45 and 90 degrees
\* relative to the stick, give or take what the fastest motor command turns
\* a hinge by in one tick.
AnglesWithinLimits ==
  LET oneTick == maxControlSpeed \div (10 * TicksPerSecond)
  IN lastFrame.updated =>
       /\ jointAngle["boom"] >= -13090 - oneTick
       /\ jointAngle["boom"] <= 10472 + oneTick
       /\ jointAngle["bucket"] >= -7854 - oneTick
       /\ jointAngle["bucket"] <= 15708 + oneTick

----------------------------------------------------------------------------
(* The animation frame and the active vehicle *)

\* a step that is an animate() frame: no key event, no vehicle switch
AnyFrame == keys' = keys /\ activeVehicle' = activeVehicle

\* C17 (as claimed): the motor commands a frame computes from the keys are in
\* force during that frame's physics step: a hinge whose motor the frame
\* commands to rest is not turned by the frame's step.
CommandsBeforeStep ==
  [][RunningFrame =>
       /\ motorSpeed'["turret"] = 0 => yaw' = yaw
       /\ \A j \in Joints : motorSpeed'[j] = 0 => jointAngle'[j] = jointAngle[j]]_vars

\* C18 (as claimed): while another vehicle is the active one, no key event
\* changes the excavator's key flags and no frame changes the speed commanded
\* to any of its joint motors.
ActiveVehicleGate ==
  [][activeVehicle # "excavator" /\ activeVehicle' = activeVehicle =>
       keys' = keys /\ motorSpeed' = motorSpeed]_vars

\* C19 (as claimed): a frame that passes while another vehicle is the active
\* one leaves no joint motor of the excavator commanded at +armSpeed or
\* -armSpeed.
InactiveRigIdle ==
  [][AnyFrame /\ activeVehicle # "excavator" =>
       \A m \in Motors : motorSpeed'[m] \notin {armSpeed, -armSpeed}]_vars

\* C20 (as claimed): at the end of every frame, the excavator active or not,
\* the quaternion of turretGroup, boomMesh, stickMesh and bucketMesh is that
\* of the physics body.
VisualSync ==
  [][AnyFrame =>
       \A m \in Motors : mesh'[m] = bodyQuaternion(jointAngle', yaw', m)]_vars

----------------------------------------------------------------------------
(* Driving: the forward and back keys of the three vehicles, and the        *)
(* excavator's turn-left key, every chassis kicked by the ground; the      *)
(* operator uses the keys of the active vehicle and parks it before        *)
(* switching                                                               *)

ExcavatorDriveKeys == {"w", "s", "a"}

VehicleDriveKeys == {"ArrowUp", "ArrowDown"}

InitDrive ==
  \E v \in Variants, p \in PlowVariants :
    Constructed(v, << >>) /\ VehiclesConstructed(p)

\* no key is held, no flag set, and no chassis is driven or turning
Parked ==
  /\ pressed = {}
  /\ \A k \in {"w", "s", "a", "d"} : ~keys[k]
  /\ \A k \in TruckKeyNames : ~dumpTruck.keys[k]
  /\ \A k \in PlowKeyNames : ~snowPlow.keys[k]
  /\ \A t \in {chassis, dumpTruck, snowPlow} :
       t.forwardVelocity = 0 /\ t.angularVelocity.y = 0

DriveKeyDown ==
  \/ \E k \in ExcavatorDriveKeys :
       activeVehicle = "excavator" /\ ~keys[k] /\ onKeyDown(k)
  \/ \E k \in VehicleDriveKeys :
       activeVehicle # "excavator" /\ k \notin pressed /\ vehicleKeyDown(k)

DriveKeyUp ==
  \/ \E k \in ExcavatorDriveKeys : keys[k] /\ onKeyUp(k)
  \/ \E k \in VehicleDriveKeys : k \in pressed /\ vehicleKeyUp(k)

DriveSwitch == \E v \in Vehicles : v # activeVehicle /\ Parked /\ switchVehicle(v)

\* what a world step can leave as vertical velocity, pitch rate and roll
\* rate of a chassis
Kicks == {0, 5000}

DriveFrame == animate({CarryPose}, {}, AngleSamples, Kicks)

NextDrive == DriveKeyDown \/ DriveKeyUp \/ DriveSwitch \/ DriveFrame

SpecDrive == InitDrive /\ [][NextDrive]_vars

----------------------------------------------------------------------------
(* forwardVelocity and the planted chassis: properties of SpecDrive. A tick *)
(* of a rig is an update() of it that runs past its active-vehicle gate.   *)

\* a step that is an animate() frame: no key event, no vehicle switch
VehicleFrame ==
  /\ AnyFrame
  /\ pressed' = pressed
  /\ dumpTruck'.keys = dumpTruck.keys
  /\ snowPlow'.keys = snowPlow.keys

\* forwardVelocity after a tick with the forward key, or the back key alone,
\* held: 0.8 up or down, no further than 8 or -8
Ramped(before, after, forward, back) ==
  /\ forward => after = (IF before + 16 < 160 THEN before + 16 ELSE 160)
  /\ back /\ ~forward => after = (IF before - 16 > -160 THEN before - 16 ELSE -160)

\* C21: on every tick of a rig with its forward key held forwardVelocity goes
\* up by 0.8, no further than 8, where it then stays; with its back key held
\* (and the forward key not) down by 0.8, no further than -8; and
\* -8 <= forwardVelocity <= 8 in every reachable state, for all three rigs.
ForwardVelocityRamp ==
  [][/\ VehicleFrame =>
          /\ ~gated => Ramped(chassis.forwardVelocity, chassis'.forwardVelocity,
                               keys["w"], keys["s"])
          /\ activeVehicle = "dumpTruck" =>
                Ramped(dumpTruck.forwardVelocity, dumpTruck'.forwardVelocity,
                       dumpTruck.keys["ArrowUp"], dumpTruck.keys["ArrowDown"])
          /\ activeVehicle = "snowPlow" =>
                Ramped(snowPlow.forwardVelocity, snowPlow'.forwardVelocity,
                       snowPlow.keys["ArrowUp"], snowPlow.keys["ArrowDown"])
     /\ \A t \in {chassis, dumpTruck, snowPlow, chassis', dumpTruck', snowPlow'} :
          t.forwardVelocity >= -160 /\ t.forwardVelocity <= 160]_vars

\* C21 witness: the dump truck has ramped up to 8 with the forward key still
\* held.
RampedToMax ==
  /\ activeVehicle = "dumpTruck"
  /\ dumpTruck.keys["ArrowUp"]
  /\ dumpTruck.forwardVelocity = 160

\* C22 (as claimed): a tick of a rig with neither its forward nor its back
\* key held leaves forwardVelocity at 0.95 times what it was (for the dump
\* truck and the snow plow: or at 0 once that is below 0.1).
ForwardVelocityDecay ==
  [][VehicleFrame =>
       /\ ~gated /\ ~keys["w"] /\ ~keys["s"] =>
             chassis'.forwardVelocity = scaled(chassis.forwardVelocity, 95, 100)
       /\ \A t \in {<<"dumpTruck", dumpTruck, dumpTruck'>>,
                     <<"snowPlow", snowPlow, snowPlow'>>} :
            activeVehicle = t[1] /\ ~t[2].keys["ArrowUp"] /\ ~t[2].keys["ArrowDown"] =>
              t[3].forwardVelocity =
                IF Abs(scaled(t[2].forwardVelocity, 95, 100)) < 2 THEN 0
                ELSE scaled(t[2].forwardVelocity, 95, 100)]_vars

\* C25 (as claimed): after every tick of a rig its chassis has vertical
\* velocity 0 and pitch (x) and roll (z) angular velocities within
\* [-0.3, 0.3].
PlantedChassis ==
  [][VehicleFrame =>
       \A t \in {<<~gated, chassis'>>,
                 <<activeVehicle = "dumpTruck", dumpTruck'>>,
                 <<activeVehicle = "snowPlow", snowPlow'>>} :
         t[1] =>
           /\ t[2].velocity.y = 0
           /\ t[2].angularVelocity.x >= -3000 /\ t[2].angularVelocity.x <= 3000
           /\ t[2].angularVelocity.z >= -3000 /\ t[2].angularVelocity.z <= 3000]_vars

----------------------------------------------------------------------------
(* Turning: the turn keys of the three vehicles; the operator uses the keys *)
(* of the active vehicle and leaves the excavator for one of the other two *)
(* once                                                                    *)

ExcavatorTurnKeys == {"a", "d"}

VehicleTurnKeys == {"ArrowLeft", "ArrowRight"}

TurnKeyDown ==
  \/ \E k \in ExcavatorTurnKeys :
       activeVehicle = "excavator" /\ ~keys[k] /\ onKeyDown(k)
  \/ \E k \in VehicleTurnKeys :
       activeVehicle # "excavator" /\ k \notin pressed /\ vehicleKeyDown(k)

TurnKeyUp ==
  \/ \E k \in ExcavatorTurnKeys : keys[k] /\ onKeyUp(k)
  \/ \E k \in VehicleTurnKeys : k \in pressed /\ vehicleKeyUp(k)

\* key 2 or 3 while the excavator is the active vehicle
LeaveExcavator ==
  \E v \in Vehicles :
    activeVehicle = "excavator" /\ v # activeVehicle /\ switchVehicle(v)

TurnFrame == animate({CarryPose}, {}, AngleSamples, {0})

NextTurn == TurnKeyDown \/ TurnKeyUp \/ LeaveExcavator \/ TurnFrame

SpecTurn == InitDrive /\ [][NextTurn]_vars

----------------------------------------------------------------------------
(* Yaw: properties of SpecTurn *)

\* C23: on every tick of the dump truck or the snow plow with no turn key
\* held the yaw angular velocity becomes 0.8 times what it was, and 0 once
\* that is below 0.05; 30 idle ticks after a turn key held for 60 ticks was
\* released it is 0, and it stays 0 for as long as no turn key is pressed.
YawDecay ==
  [][/\ VehicleFrame =>
          \A t \in {<<"dumpTruck", dumpTruck, dumpTruck'>>,
                    <<"snowPlow", snowPlow, snowPlow'>>} :
            activeVehicle = t[1] /\ ~t[2].keys["ArrowLeft"]
              /\ ~t[2].keys["ArrowRight"] =>
              t[3].angularVelocity.y =
                IF Abs(scaled(t[2].angularVelocity.y, 8, 10)) < 500 THEN 0
                ELSE scaled(t[2].angularVelocity.y, 8, 10)
     /\ \A t \in {dumpTruck', snowPlow'} :
          t.turning.held = 60 /\ t.turning.idle = 30 => t.angularVelocity.y = 0]_vars

\* C23 witness: the snow plow turned for 60 ticks, then ran 30 idle ticks,
\* and is the active vehicle with no turn key held.
YawSettled ==
  /\ activeVehicle = "snowPlow"
  /\ snowPlow.turning = [held |-> 60, idle |-> 30]
  /\ ~snowPlow.keys["ArrowLeft"] /\ ~snowPlow.keys["ArrowRight"]
  /\ snowPlow.angularVelocity.y = 0

\* a chassis turning the other way, the track forces exchanged
mirroredChassis(c) ==
  [c EXCEPT !.angularVelocity.y = -@,
            !.leftTrackForce = c.rightTrackForce,
            !.rightTrackForce = c.leftTrackForce]

\* a truck or plow turning the other way with the turn flags exchanged
mirroredVehicle(t) ==
  [t EXCEPT !.angularVelocity.y = -@,
            !.keys["ArrowLeft"] = t.keys["ArrowRight"],
            !.keys["ArrowRight"] = t.keys["ArrowLeft"]]

\* C24 (as claimed): a tick of a rig, and the same tick of the mirrored rig
\* with the turn-left and turn-right keys exchanged, command opposite yaw
\* angular velocities and, on the excavator, exchanged track forces.
LocomotionSymmetry ==
  [][VehicleFrame =>
       /\ ~gated =>
             LET m == locomotion(mirroredChassis(chassis),
                                 [keys EXCEPT !["a"] = keys["d"], !["d"] = keys["a"]])
             IN /\ m.angularVelocity.y = -chassis'.angularVelocity.y
                /\ m.leftTrackForce = chassis'.rightTrackForce
                /\ m.rightTrackForce = chassis'.leftTrackForce
       /\ activeVehicle = "dumpTruck" =>
             vehicleDrive(mirroredVehicle(dumpTruck)).angularVelocity.y
               = -dumpTruck'.angularVelocity.y
       /\ activeVehicle = "snowPlow" =>
             vehicleDrive(mirroredVehicle(snowPlow)).angularVelocity.y
               = -snowPlow'.angularVelocity.y]_vars

----------------------------------------------------------------------------
(* Key events between vehicle switches: the tipper's lower key and the      *)
(* blade's raise key, pressed and released whichever vehicle is active     *)

FlagKeys == {"n", "x"}

FlagKeyDown == \E k \in FlagKeys : k \notin pressed /\ vehicleKeyDown(k)

FlagKeyUp == \E k \in FlagKeys : k \in pressed /\ vehicleKeyUp(k)

\* key 1, 2 or 3
SwitchAny == \E v \in Vehicles : v # activeVehicle /\ switchVehicle(v)

FlagFrame == animate({CarryPose}, {}, AngleSamples, {0})

NextFlags == FlagKeyDown \/ FlagKeyUp \/ SwitchAny \/ FlagFrame

SpecFlags == InitDrive /\ [][NextFlags]_vars

\* C26 (as claimed): on every tick of the dump truck or the snow plow each of
\* its key flags that is set belongs to a key that is held down at that
\* moment, whatever key events and vehicle switches came before.
FlagsTrackKeys ==
  [][VehicleFrame =>
       /\ activeVehicle = "dumpTruck" =>
             \A k \in TruckKeyNames : dumpTruck.keys[k] => k \in pressed
       /\ activeVehicle = "snowPlow" =>
             \A k \in PlowKeyNames : snowPlow.keys[k] => k \in pressed]_vars

----------------------------------------------------------------------------
(* Tipper, blade and lift: their keys on the active vehicle, one key or the *)
(* two opposing keys of one attachment at a time; the operator leaves the  *)
(* excavator for one of the other two once                                 *)

TravelKeys == {"b", "n", "z", "x", "v", "c"}

\* the key that works the same attachment the other way
Opposing(k) ==
  CASE k = "b" -> "n" [] k = "n" -> "b"
    [] k = "z" -> "x" [] k = "x" -> "z"
    [] k = "v" -> "c" [] k = "c" -> "v"

InitTravel ==
  \E p \in PlowVariants : Constructed("Excavator.js", << >>) /\ VehiclesConstructed(p)

TravelKeyDown ==
  \E k \in TravelKeys :
    /\ k \notin pressed
    /\ pressed \subseteq {Opposing(k)}
    /\ \/ activeVehicle = "dumpTruck" /\ k \in TruckKeyNames
       \/ activeVehicle = "snowPlow" /\ k \in PlowKeyNames
    /\ vehicleKeyDown(k)

TravelKeyUp == \E k \in TravelKeys : k \in pressed /\ vehicleKeyUp(k)

TravelFrame == animate({CarryPose}, {}, AngleSamples, {0})

NextTravel == TravelKeyDown \/ TravelKeyUp \/ LeaveExcavator \/ TravelFrame

SpecTravel == InitTravel /\ [][NextTravel]_vars

\* C30: the tipper rotation stays in [0, pi/6] and changes by at most 0.02 in
\* a step, the plow assembly height stays in [0.1, 1.5] and changes by at
\* most 0.01, the blade rotation stays in [-pi/2, -pi/6] (part_013) or
\* [-pi/6, 0] (part_014) and changes by at most 0.02, also while both
\* opposing keys are held.
TravelLimits ==
  [][/\ \A t \in {dumpTruck, dumpTruck'} :
          t.tipperRotation >= 0 /\ t.tipperRotation <= 5236
     /\ Abs(dumpTruck'.tipperRotation - dumpTruck.tipperRotation) <= 200
     /\ \A t \in {snowPlow, snowPlow'} :
          /\ t.assemblyHeight >= 10 /\ t.assemblyHeight <= 150
          /\ IF plowVariant = "part_013"
             THEN t.bladeRotation >= -15708 /\ t.bladeRotation <= -5236
             ELSE t.bladeRotation >= -5236 /\ t.bladeRotation <= 0
     /\ Abs(snowPlow'.assemblyHeight - snowPlow.assemblyHeight) <= 1
     /\ Abs(snowPlow'.bladeRotation - snowPlow.bladeRotation) <= 200]_vars

\* C30 witness: the snow plow's lift is at 1.5 with the lift-up key still
\* held, after a tick with both blade keys held at the blade's lowest
\* rotation left the blade 0.02 above it.
TravelAtStop ==
  /\ activeVehicle = "snowPlow"
  /\ snowPlow.assemblyHeight = 150
  /\ snowPlow.keys["v"]
  /\ snowPlow.bladeRotation = BladeRange(plowVariant).lowest + 200

----------------------------------------------------------------------------
(* Manual drive and the stick's limiter: properties of SpecRig *)

\* C27: on every tick with a drive key of a motor held its speed is set to
\* +1.5 or -1.5: turret q -, e +; boom r -, f +; stick g -, t +; bucket y +,
\* h -; with both keys of a motor held the first of the pair decides.
ManualDrive ==
  [][RunningFrame =>
       /\ keys["q"] => motorSpeed'["turret"] = -150000
       /\ ~keys["q"] /\ keys["e"] => motorSpeed'["turret"] = 150000
       /\ keys["r"] => motorSpeed'["boom"] = -150000
       /\ ~keys["r"] /\ keys["f"] => motorSpeed'["boom"] = 150000
       /\ keys["g"] => motorSpeed'["stick"] = -150000
       /\ ~keys["g"] /\ keys["t"] => motorSpeed'["stick"] = 150000
       /\ keys["y"] => motorSpeed'["bucket"] = 150000
       /\ ~keys["y"] /\ keys["h"] => motorSpeed'["bucket"] = -150000]_vars

\* C27 witness: src/Excavator.js, a tick with r and f both held has just set
\* the boom motor to -1.5.
FirstKeyWon ==
  /\ variant = "Excavator.js"
  /\ lastFrame.updated
  /\ keys["r"] /\ keys["f"]
  /\ motorSpeed["boom"] = -150000

\* C29 (as claimed): src/Excavator.js, on every tick with neither g nor t
\* held the stick motor speed is set to 0 when the stick's rotation about X
\* relative to the boom is within [-0.0873, 0.0873] or less than 0.01 past
\* it, and otherwise to -0.1 times what it is past the nearer bound.
StickLimiterLaw ==
  [][RunningFrame /\ variant = "Excavator.js" /\ ~keys["g"] /\ ~keys["t"] =>
       LET rel == jointAngle'["stick"]
           overshoot == IF rel > 873 THEN rel - 873
                        ELSE IF rel < -873 THEN rel + 873 ELSE 0
       IN motorSpeed'["stick"] = IF Abs(overshoot) < 100 THEN 0 ELSE -overshoot]_vars

----------------------------------------------------------------------------
(* Pickup selection: a property of Spec *)

====
